---------------------------- MODULE Spec2Model ----------------------------
(***************************************************************************)
(* A model of the terminal editor of src/src/index.js (class Editor, lines *)
(* 12-187): raw-mode start-up, the keypress handler, the cursor movement   *)
(* and the frame composed by every refresh.                                *)
(*                                                                         *)
(* A frame is a sequence of tokens.  A token is one character of text      *)
(* ("~", " ", a letter of the welcome message) or one terminal control     *)
(* sequence, written with ESC for the byte 0x1B ("ESC[K", "ESC[2;1H").     *)
(* An input event is the raw sequence of the key, written the same way;    *)
(* "DC1" is the control code 0x11.                                         *)
(***************************************************************************)
EXTENDS Integers, Sequences, FiniteSets, TLC

---------------------------------------------------------------------------
(* Bounds of the model: the terminals the editor is started in and the     *)
(* number of key events of a session.                                      *)

\* narrow terminals: 0..MaxNarrow columns
MaxNarrow == 2
\* the terminal of the MoveRight scenario
ScenarioColumns == 10
\* wide terminals: up to MaxPad columns more than the welcome message
MaxPad == 4
\* short terminals: 0..MaxRows rows
MaxRows == 4
\* the terminal of the banner scenario
ScenarioRows == 9
\* key events processed in one session
MaxEvents == 12

---------------------------------------------------------------------------
(* JavaScript values that are not numbers.                                 *)

\* process.stdout.columns / rows of a stream that is not a terminal
Undefined == -1
\* the result of arithmetic on undefined
NaN == -2

IsNumber(v) == v >= 0

\* a < b in JavaScript: false when either side is undefined or NaN
JsLt(a, b) == a \notin {Undefined, NaN} /\ b \notin {Undefined, NaN} /\ a < b

\* a + n and a - n in JavaScript, n a number
JsAdd(a, n) == IF a \in {Undefined, NaN} THEN NaN ELSE a + n

JsSub(a, n) == IF a \in {Undefined, NaN} THEN NaN ELSE a - n

\* `${v}` in a template string
JsStr(v) == IF v = NaN THEN "NaN" ELSE IF v = Undefined THEN "undefined" ELSE ToString(v)

---------------------------------------------------------------------------
(* Constants of the program.                                               *)

\* PAGE_UP given the sequence of the Delete key, ESC [ 3 ~
EDITOR_KEY_PageUpIsDelete ==
  [ ARROW_UP    |-> "w",
    ARROW_DOWN  |-> "s",
    ARROW_LEFT  |-> "a",
    ARROW_RIGHT |-> "d",
    PAGE_UP     |-> "ESC[3~",
    PAGE_DOWN   |-> "ESC[6~" ]

EDITOR_KEY ==
  [ ARROW_UP    |-> "w",
    ARROW_DOWN  |-> "s",
    ARROW_LEFT  |-> "a",
    ARROW_RIGHT |-> "d",
    PAGE_UP     |-> "ESC[5~",
    PAGE_DOWN   |-> "ESC[6~" ]

\* 'Kilo editor in node.js - version 0.0.0'
welcomeMsg ==
  << "K", "i", "l", "o", " ", "e", "d", "i", "t", "o", "r", " ", "i", "n", " ",
     "n", "o", "d", "e", ".", "j", "s", " ", "-", " ", "v", "e", "r", "s", "i",
     "o", "n", " ", "0", ".", "0", ".", "0" >>

\* the quit key, 0x11
DC1 == "DC1"

HIDE_CURSOR == "ESC[?25l"

SHOW_CURSOR == "ESC[?25h"

CURSOR_HOME == "ESC[H"

CLEAR_LINE == "ESC[K"

---------------------------------------------------------------------------
(* The inputs of the model.                                                *)

ArrowSeqs == {"ESC[A", "ESC[B", "ESC[C", "ESC[D"}

HomeSeqs == {"ESC[H", "ESC[1~", "ESC[7~", "ESCOH"}

EndSeqs == {"ESC[4~", "ESC[8~", "ESC[F", "ESCOF"}

DeleteSeq == "ESC[3~"

\* sequences that no table knows: a letter and an unassigned escape sequence
OtherSeqs == {"x", "ESC[Z"}

\* raw sequences of the key events delivered to the handler
KeySeqs ==
  ArrowSeqs \cup HomeSeqs \cup EndSeqs \cup OtherSeqs
    \cup {"w", "s", "a", "d", "ESC[5~", "ESC[6~", DeleteSeq, DC1}

ColumnsSet ==
  (0 .. MaxNarrow) \cup {ScenarioColumns}
    \cup ((Len(welcomeMsg) - 1) .. (Len(welcomeMsg) + MaxPad))

RowsSet == (0 .. MaxRows) \cup {ScenarioRows}

\* what process.stdout reports: a size, or nothing when it is not a terminal
WindowSizes ==
  [columns : ColumnsSet, rows : RowsSet]
    \cup {[columns |-> Undefined, rows |-> Undefined]}

---------------------------------------------------------------------------
VARIABLES
  pc,         \* "constructed", "running" (handler registered) or "exited"
  exitCode,   \* {} while the process lives, {code} once it has exited
  rawMode,    \* process.stdin is in raw mode
  columns,    \* Editor.columns
  rows,       \* Editor.rows
  cursorX,    \* Editor.cursorX
  cursorY,    \* Editor.cursorY
  written,    \* the buffers written to stdout by the latest refresh
  nWrites,    \* calls of process.stdout.write so far
  nFrames,    \* refreshes so far
  nEvents,    \* keypress events processed so far
  onlyRight   \* every event so far decoded to ARROW_RIGHT

vars ==
  << pc, exitCode, rawMode, columns, rows, cursorX, cursorY,
     written, nWrites, nFrames, nEvents, onlyRight >>

---------------------------------------------------------------------------
(* Editor.#readKey                                                         *)

\* the results of the first two cases exchanged
readKey_UpDownSwapped(sequence) ==
  CASE sequence = "ESC[B" -> EDITOR_KEY.ARROW_UP
    [] sequence = "ESC[A" -> EDITOR_KEY.ARROW_DOWN
    [] sequence = "ESC[C" -> EDITOR_KEY.ARROW_RIGHT
    [] sequence = "ESC[D" -> EDITOR_KEY.ARROW_LEFT
    [] OTHER -> sequence

readKey(sequence) ==
  CASE sequence = "ESC[B" -> EDITOR_KEY.ARROW_DOWN
    [] sequence = "ESC[A" -> EDITOR_KEY.ARROW_UP
    [] sequence = "ESC[C" -> EDITOR_KEY.ARROW_RIGHT
    [] sequence = "ESC[D" -> EDITOR_KEY.ARROW_LEFT
    [] OTHER -> sequence

---------------------------------------------------------------------------
(* Editor.#editorMoveCursor: the cursor after the key, as [x, y]           *)

\* ARROW_RIGHT compared with columns instead of columns - 1
editorMoveCursor_RightPastEdge(key, x, y, cols, rws) ==
  CASE key = EDITOR_KEY.ARROW_LEFT ->
         [x |-> IF JsLt(0, x) THEN x - 1 ELSE x, y |-> y]
    [] key = EDITOR_KEY.ARROW_RIGHT ->
         [x |-> IF JsLt(x, cols) THEN x + 1 ELSE x, y |-> y]
    [] key = EDITOR_KEY.ARROW_UP ->
         [x |-> x, y |-> IF JsLt(0, y) THEN y - 1 ELSE y]
    [] key = EDITOR_KEY.ARROW_DOWN ->
         [x |-> x, y |-> IF JsLt(y, JsSub(rws, 1)) THEN y + 1 ELSE y]
    [] key = EDITOR_KEY.PAGE_UP ->
         [x |-> x, y |-> 0]
    [] key = EDITOR_KEY.PAGE_DOWN ->
         [x |-> x, y |-> rws]
    [] OTHER -> [x |-> x, y |-> y]

\* ARROW_DOWN compared with rows instead of rows - 1
editorMoveCursor_DownPastEdge(key, x, y, cols, rws) ==
  CASE key = EDITOR_KEY.ARROW_LEFT ->
         [x |-> IF JsLt(0, x) THEN x - 1 ELSE x, y |-> y]
    [] key = EDITOR_KEY.ARROW_RIGHT ->
         [x |-> IF JsLt(x, JsSub(cols, 1)) THEN x + 1 ELSE x, y |-> y]
    [] key = EDITOR_KEY.ARROW_UP ->
         [x |-> x, y |-> IF JsLt(0, y) THEN y - 1 ELSE y]
    [] key = EDITOR_KEY.ARROW_DOWN ->
         [x |-> x, y |-> IF JsLt(y, rws) THEN y + 1 ELSE y]
    [] key = EDITOR_KEY.PAGE_UP ->
         [x |-> x, y |-> 0]
    [] key = EDITOR_KEY.PAGE_DOWN ->
         [x |-> x, y |-> rws]
    [] OTHER -> [x |-> x, y |-> y]

\* PAGE_UP moves one row up, as ARROW_UP does
editorMoveCursor_PageUpOneRow(key, x, y, cols, rws) ==
  CASE key = EDITOR_KEY.ARROW_LEFT ->
         [x |-> IF JsLt(0, x) THEN x - 1 ELSE x, y |-> y]
    [] key = EDITOR_KEY.ARROW_RIGHT ->
         [x |-> IF JsLt(x, JsSub(cols, 1)) THEN x + 1 ELSE x, y |-> y]
    [] key = EDITOR_KEY.ARROW_UP ->
         [x |-> x, y |-> IF JsLt(0, y) THEN y - 1 ELSE y]
    [] key = EDITOR_KEY.ARROW_DOWN ->
         [x |-> x, y |-> IF JsLt(y, JsSub(rws, 1)) THEN y + 1 ELSE y]
    [] key = EDITOR_KEY.PAGE_UP ->
         [x |-> x, y |-> IF JsLt(0, y) THEN y - 1 ELSE y]
    [] key = EDITOR_KEY.PAGE_DOWN ->
         [x |-> x, y |-> rws]
    [] OTHER -> [x |-> x, y |-> y]

editorMoveCursor(key, x, y, cols, rws) ==
  CASE key = EDITOR_KEY.ARROW_LEFT ->
         [x |-> IF JsLt(0, x) THEN x - 1 ELSE x, y |-> y]
    [] key = EDITOR_KEY.ARROW_RIGHT ->
         [x |-> IF JsLt(x, JsSub(cols, 1)) THEN x + 1 ELSE x, y |-> y]
    [] key = EDITOR_KEY.ARROW_UP ->
         [x |-> x, y |-> IF JsLt(0, y) THEN y - 1 ELSE y]
    [] key = EDITOR_KEY.ARROW_DOWN ->
         [x |-> x, y |-> IF JsLt(y, JsSub(rws, 1)) THEN y + 1 ELSE y]
    [] key = EDITOR_KEY.PAGE_UP ->
         [x |-> x, y |-> 0]
    [] key = EDITOR_KEY.PAGE_DOWN ->
         [x |-> x, y |-> rws]
    [] OTHER -> [x |-> x, y |-> y]

---------------------------------------------------------------------------
(* Editor.#drawRows                                                        *)

\* the banner on the middle row instead of a third of the way down
BannerRow_Middle(rws) == rws \div 2

\* Math.floor(rows / 3)
BannerRow(rws) == rws \div 3

\* the while loop of the banner row; padding is kept doubled (pad2 = 2 *
\* padding) because (columns - length) / 2 is not rounded
RECURSIVE PaddingSpaces(_)
PaddingSpaces(pad2) ==
  IF JsLt(0, pad2) THEN <<" ">> \o PaddingSpaces(pad2 - 2) ELSE <<>>

\* the filler glyph is not counted: padding-- after it is missing
BannerText_GlyphNotCounted(cols) ==
  LET pad2 == JsSub(cols, Len(welcomeMsg))
  IN  IF JsLt(0, pad2)
        THEN <<"~">> \o PaddingSpaces(pad2) \o welcomeMsg
        ELSE PaddingSpaces(pad2) \o welcomeMsg

\* the text of the banner row
BannerText(cols) ==
  LET pad2 == JsSub(cols, Len(welcomeMsg))
  IN  IF JsLt(0, pad2)
        THEN <<"~">> \o PaddingSpaces(pad2 - 2) \o welcomeMsg
        ELSE PaddingSpaces(pad2) \o welcomeMsg

\* a line break after every row, the last one too
DrawRow_BreakAfterLast(y, cols, rws) ==
  (IF y = BannerRow(rws) THEN BannerText(cols) ELSE <<"~">>)
    \o <<CLEAR_LINE>>
    \o <<"CRLF">>

\* one iteration of the for loop
DrawRow(y, cols, rws) ==
  (IF y = BannerRow(rws) THEN BannerText(cols) ELSE <<"~">>)
    \o <<CLEAR_LINE>>
    \o (IF JsLt(y, JsSub(rws, 1)) THEN <<"CRLF">> ELSE <<>>)

RECURSIVE DrawRowsFrom(_, _, _)
DrawRowsFrom(y, cols, rws) ==
  IF JsLt(y, rws)
    THEN DrawRow(y, cols, rws) \o DrawRowsFrom(y + 1, cols, rws)
    ELSE <<>>

\* the buffer it is given, with the rows appended to it
drawRows(appendBuffer, cols, rws) == appendBuffer \o DrawRowsFrom(0, cols, rws)

---------------------------------------------------------------------------
(* Editor.#refreshScreen: the buffers it writes, one per write             *)

\* the cursor reported in 0-based coordinates
CursorPosition_ZeroBased(x, y) ==
  "ESC[" \o JsStr(JsAdd(y, 0)) \o ";" \o JsStr(JsAdd(x, 0)) \o "H"

CursorPosition(x, y) ==
  "ESC[" \o JsStr(JsAdd(y, 1)) \o ";" \o JsStr(JsAdd(x, 1)) \o "H"

\* the cursor is hidden and homed by a write of its own, before the rows
refreshScreen_TwoWrites(x, y, cols, rws) ==
  LET b1 == <<HIDE_CURSOR>>
      b2 == b1 \o <<CURSOR_HOME>>
      b3 == drawRows(b2, cols, rws)
      b4 == b3 \o <<CursorPosition(x, y)>>
      b5 == b4 \o <<SHOW_CURSOR>>
  IN  << b2, b5 >>

refreshScreen(x, y, cols, rws) ==
  LET b1 == <<HIDE_CURSOR>>
      b2 == b1 \o <<CURSOR_HOME>>
      b3 == b2 \o drawRows(b2, cols, rws)
      b4 == b3 \o <<CursorPosition(x, y)>>
      b5 == b4 \o <<SHOW_CURSOR>>
  IN  << b5 >>

---------------------------------------------------------------------------
(* Editor.#die: the buffers it writes, whether the process exits, and the  *)
(* exit code                                                               *)

\* the screen is refreshed but process.exit() is not called
die_NoExit(x, y, cols, rws) ==
  [writes |-> refreshScreen(x, y, cols, rws), frames |-> 1,
   exits |-> FALSE, code |-> 0]

die(x, y, cols, rws) ==
  [writes |-> refreshScreen(x, y, cols, rws), frames |-> 1,
   exits |-> TRUE, code |-> 0]

---------------------------------------------------------------------------
(* Editor.#enableRawMode: stdin.setRawMode exists only on a terminal; the  *)
(* call throws a TypeError otherwise                                       *)

\* raw mode skipped, instead of an error, when stdin is not a terminal
enableRawMode_SkipsNonTTY(stdinIsTTY) ==
  IF stdinIsTTY THEN [raw |-> TRUE, throws |-> FALSE]
                ELSE [raw |-> FALSE, throws |-> FALSE]

enableRawMode(stdinIsTTY) ==
  IF stdinIsTTY THEN [raw |-> TRUE, throws |-> FALSE]
                ELSE [raw |-> FALSE, throws |-> TRUE]

\* Editor.#updateWindowSize
updateWindowSize(size) == [columns |-> size.columns, rows |-> size.rows]

---------------------------------------------------------------------------
Init ==
  /\ pc = "constructed"
  /\ exitCode = {}
  /\ rawMode = FALSE
  /\ columns = 0
  /\ rows = 0
  /\ cursorX = 0
  /\ cursorY = 0
  /\ written = <<>>
  /\ nWrites = 0
  /\ nFrames = 0
  /\ nEvents = 0
  /\ onlyRight = TRUE

\* Editor.init, called once on the new editor
init ==
  /\ pc = "constructed"
  /\ \E stdinIsTTY \in BOOLEAN, size \in WindowSizes :
       LET mode == enableRawMode(stdinIsTTY)
           ext  == updateWindowSize(size)
           out  == refreshScreen(cursorX, cursorY, ext.columns, ext.rows)
       IN  IF mode.throws
             THEN \* uncaught exception: the process exits with code 1
                  /\ pc' = "exited"
                  /\ exitCode' = {1}
                  /\ UNCHANGED << rawMode, columns, rows, written, nWrites, nFrames >>
             ELSE /\ pc' = "running"
                  /\ rawMode' = mode.raw
                  /\ columns' = ext.columns
                  /\ rows' = ext.rows
                  /\ written' = out
                  /\ nWrites' = nWrites + Len(out)
                  /\ nFrames' = nFrames + 1
                  /\ UNCHANGED exitCode
  /\ UNCHANGED << cursorX, cursorY, nEvents, onlyRight >>

\* the switch of the keypress listener: the cursor after a decoded sequence
dispatchKey(sequence, x, y, cols, rws) ==
  IF sequence \in
       { EDITOR_KEY.ARROW_UP, EDITOR_KEY.ARROW_DOWN,
         EDITOR_KEY.ARROW_LEFT, EDITOR_KEY.ARROW_RIGHT,
         EDITOR_KEY.PAGE_UP, EDITOR_KEY.PAGE_DOWN }
    THEN editorMoveCursor(sequence, x, y, cols, rws)
    ELSE [x |-> x, y |-> y]

\* the keypress listener of Editor.#editorProcessKeypress, for one event
editorProcessKeypress(keySequence) ==
  /\ pc = "running"
  /\ nEvents < MaxEvents
  /\ LET sequence == readKey(keySequence)
         quit     == IF sequence = DC1
                       THEN die(cursorX, cursorY, columns, rows)
                       ELSE [writes |-> <<>>, frames |-> 0, exits |-> FALSE, code |-> 0]
         moved    == dispatchKey(sequence, cursorX, cursorY, columns, rows)
         \* line 85, reached unless the process has exited
         last     == IF quit.exits THEN <<>>
                                   ELSE refreshScreen(moved.x, moved.y, columns, rows)
         lastN    == IF quit.exits THEN 0 ELSE 1
     IN  /\ cursorX' = moved.x
         /\ cursorY' = moved.y
         /\ written' = IF last # <<>> THEN last ELSE quit.writes
         /\ nWrites' = nWrites + Len(quit.writes) + Len(last)
         /\ nFrames' = nFrames + quit.frames + lastN
         /\ pc' = IF quit.exits THEN "exited" ELSE "running"
         /\ exitCode' = IF quit.exits THEN {quit.code} ELSE exitCode
         /\ onlyRight' = (onlyRight /\ sequence = EDITOR_KEY.ARROW_RIGHT)
  /\ nEvents' = nEvents + 1
  /\ UNCHANGED << rawMode, columns, rows >>

Next ==
  \/ init
  \/ \E keySequence \in KeySeqs : editorProcessKeypress(keySequence)

Spec == Init /\ [][Next]_vars

---------------------------------------------------------------------------
(* Vocabulary of the properties.                                           *)

Max(a, b) == IF a >= b THEN a ELSE b

Min(a, b) == IF a <= b THEN a ELSE b

\* the decode table of the specification: the raw sequences of each key
MoveUpSeqs == {"ESC[A", "w"}

MoveDownSeqs == {"ESC[B", "s"}

MoveLeftSeqs == {"ESC[D", "a"}

MoveRightSeqs == {"ESC[C", "d"}

PageUpSeqs == {"ESC[5~"}

PageDownSeqs == {"ESC[6~"}

QuitSeqs == {DC1}

\* a step that processes one event whose raw sequence is in S
KeyStep(S) == \E keySequence \in S : editorProcessKeypress(keySequence)

\* the terminal has a measured size
Measured == IsNumber(columns) /\ IsNumber(rows)

SameCursor == cursorX' = cursorX /\ cursorY' = cursorY

SameExtent == columns' = columns /\ rows' = rows

\* C1: in every state reached by key events from the cursor (0,0), for
\* every viewport extent, 0 <= x < max(columns,1) and 0 <= y < max(rows,1).
C1_CursorInsideViewport ==
  (pc # "constructed" /\ Measured) =>
    /\ 0 <= cursorX /\ cursorX < Max(columns, 1)
    /\ 0 <= cursorY /\ cursorY < Max(rows, 1)

\* C2: with rows >= 1, in every reachable state, MoveUp sets y to
\* max(y-1, 0) and MoveDown sets y to min(y+1, rows-1); both leave x and
\* the extent unchanged.
C2_MoveUpDownClamp ==
  [][ (pc = "running" /\ Measured /\ rows >= 1) =>
        /\ KeyStep(MoveUpSeqs) =>
             cursorY' = Max(cursorY - 1, 0) /\ cursorX' = cursorX /\ SameExtent
        /\ KeyStep(MoveDownSeqs) =>
             cursorY' = Min(cursorY + 1, rows - 1) /\ cursorX' = cursorX /\ SameExtent
    ]_vars

\* C3: with columns >= 1, in every reachable state, MoveLeft sets x to
\* max(x-1, 0) and MoveRight sets x to min(x+1, columns-1), both leaving y
\* and the extent unchanged; so n MoveRight events from the start end with
\* x = min(n, columns-1).
C3_MoveLeftRightClamp ==
  /\ [][ (pc = "running" /\ Measured /\ columns >= 1) =>
           /\ KeyStep(MoveLeftSeqs) =>
                cursorX' = Max(cursorX - 1, 0) /\ cursorY' = cursorY /\ SameExtent
           /\ KeyStep(MoveRightSeqs) =>
                cursorX' = Min(cursorX + 1, columns - 1) /\ cursorY' = cursorY
                  /\ SameExtent
       ]_vars
  /\ [] ( (pc = "running" /\ Measured /\ columns >= 1 /\ onlyRight) =>
            cursorX = Min(nEvents, columns - 1) )

\* the MoveRight scenario: more MoveRight events than columns, clamped
C3_Witness ==
  /\ pc = "running" /\ onlyRight
  /\ columns = ScenarioColumns
  /\ nEvents > ScenarioColumns
  /\ cursorX = ScenarioColumns - 1

\* C4: an event whose raw sequence is a Home sequence sets x to 0, one whose
\* raw sequence is an End sequence sets x to columns-1; both leave y
\* unchanged.
C4_HomeEnd ==
  [][ (pc = "running" /\ Measured /\ columns >= 1) =>
        /\ KeyStep(HomeSeqs) => cursorX' = 0 /\ cursorY' = cursorY
        /\ KeyStep(EndSeqs) => cursorX' = columns - 1 /\ cursorY' = cursorY
    ]_vars

\* C5: with columns, rows >= 1 the cursor satisfies 0 <= x <= columns-1 and
\* 0 <= y <= rows; PageUp sets y to 0 and PageDown sets y to rows, both
\* leaving x unchanged; y becomes rows only by a PageDown, never by a
\* MoveDown.
C5_CursorRange ==
  /\ [] ( (pc # "constructed" /\ Measured /\ columns >= 1 /\ rows >= 1) =>
            /\ 0 <= cursorX /\ cursorX <= columns - 1
            /\ 0 <= cursorY /\ cursorY <= rows )
  /\ [][ (pc = "running" /\ Measured /\ columns >= 1 /\ rows >= 1) =>
           /\ KeyStep(PageUpSeqs) => cursorY' = 0 /\ cursorX' = cursorX
           /\ KeyStep(PageDownSeqs) => cursorY' = rows /\ cursorX' = cursorX
           /\ (cursorY # rows /\ cursorY' = rows) => KeyStep(PageDownSeqs)
           /\ KeyStep(MoveDownSeqs) => (cursorY' = rows => cursorY = rows)
       ]_vars

\* after a PageDown: the cursor in the last column, one row below the last
C5_Witness ==
  /\ pc = "running" /\ Measured /\ columns >= 2 /\ rows >= 2
  /\ cursorX = columns - 1
  /\ cursorY = rows

\* C6: on every exit path raw mode is turned off before the process
\* terminates: no terminated state has raw mode enabled.
C6_RawModeRestored == (pc = "exited") => ~rawMode

\* C7: a Quit event in the running editor writes exactly one final frame,
\* leaves the cursor unchanged and exits with code 0; nothing happens after
\* the exit; no event other than Quit leaves the running state.
C7_Quit ==
  [][ /\ (pc = "running" /\ KeyStep(QuitSeqs)) =>
           /\ nFrames' = nFrames + 1
           /\ nWrites' = nWrites + 1
           /\ SameCursor
           /\ pc' = "exited"
           /\ exitCode' = {0}
      /\ (pc = "exited") =>
           /\ SameCursor
           /\ UNCHANGED << pc, exitCode, written, nWrites, nFrames, nEvents >>
      /\ (pc = "running" /\ pc' # "running") => KeyStep(QuitSeqs)
      /\ (pc = "running" /\ KeyStep(KeySeqs \ QuitSeqs)) => pc' = "running"
    ]_vars

\* the editor has quit after the cursor was moved
C7_Witness ==
  /\ pc = "exited" /\ exitCode = {0}
  /\ cursorX > 0
  /\ nFrames = nEvents + 1

\* C8: every event that is not Quit triggers exactly one render, done as
\* exactly one write; while running, the frames written are 1 plus the
\* events processed.
C8_OneRenderPerEvent ==
  /\ [][ (pc = "running" /\ KeyStep(KeySeqs \ QuitSeqs)) =>
           /\ nFrames' = nFrames + 1
           /\ nWrites' = nWrites + 1
           /\ Len(written') = 1
       ]_vars
  /\ [] ( (pc = "running") => (nFrames = 1 + nEvents /\ nWrites = nFrames) )

\* several events of different kinds have been rendered
C8_Witness ==
  /\ pc = "running"
  /\ nEvents >= 3 /\ ~onlyRight
  /\ nFrames = 1 + nEvents

---------------------------------------------------------------------------
(* Reading a frame back: its rows are cut at the clear-to-end-of-line      *)
(* tokens, the text of a row is what the terminal prints for it.           *)

\* the frame of the latest refresh (one buffer, written by one write)
Frame == written[1]

FrameWritten == Len(written) = 1

\* the tokens that print a character
TextTokens == {"~", " "} \cup {welcomeMsg[i] : i \in 1 .. Len(welcomeMsg)}

Count(f, token) == Cardinality({i \in 1 .. Len(f) : f[i] = token})

\* the positions of the clear-to-end-of-line tokens, one per painted row
ClearPositions(f) == {i \in 1 .. Len(f) : f[i] = CLEAR_LINE}

\* the position of the clear-to-end-of-line token of row k (from 0)
RowEnd(f, k) ==
  CHOOSE i \in ClearPositions(f) :
    Cardinality({j \in ClearPositions(f) : j < i}) = k

\* the printed text of row k: the text tokens after the previous row's end
RowText(f, k) ==
  LET from == IF k = 0 THEN 1 ELSE RowEnd(f, k - 1) + 1
      to   == RowEnd(f, k) - 1
  IN  SelectSeq(SubSeq(f, from, to), LAMBDA tok : tok \in TextTokens)

\* the places of the welcome message in a sequence of tokens
BannerPlaces(f) ==
  {i \in 1 .. (Len(f) - Len(welcomeMsg) + 1) :
     SubSeq(f, i, i + Len(welcomeMsg) - 1) = welcomeMsg}

\* C9: every frame is exactly one hide-cursor, one move-to-top-left, the
\* painted rows for y in [0, rows), one cursor-position sequence and one
\* show-cursor, in this order and nothing else.
C9_FrameShape ==
  (FrameWritten /\ Measured) =>
    LET f == Frame
        n == Len(f)
    IN  /\ n >= 4
        /\ Cardinality(ClearPositions(f)) = rows
        /\ f[1] = HIDE_CURSOR
        /\ f[2] = CURSOR_HOME
        /\ \A i \in 3 .. (n - 2) : f[i] \in TextTokens \cup {CLEAR_LINE, "CRLF"}
        /\ f[n - 1] = CursorPosition(cursorX, cursorY)
        /\ f[n] = SHOW_CURSOR
        /\ Count(f, HIDE_CURSOR) = 1
        /\ Count(f, CURSOR_HOME) = 1

\* C10: with rows >= 1 the welcome banner is in the frame exactly once, on
\* row floor(rows/3), and every other row is a single filler glyph before
\* its clear-to-end-of-line.
C10_BannerRow ==
  (FrameWritten /\ Measured /\ rows >= 1) =>
    /\ Cardinality(ClearPositions(Frame)) = rows
    /\ Cardinality(BannerPlaces(Frame)) = 1
    /\ \A k \in 0 .. (rows - 1) :
         IF k = rows \div 3
           THEN BannerPlaces(RowText(Frame, k)) # {}
           ELSE RowText(Frame, k) = <<"~">>

\* the banner scenario: nine rows, the banner on row 3 after a padding
C10_Witness ==
  /\ FrameWritten /\ Measured
  /\ rows = ScenarioRows
  /\ columns > Len(welcomeMsg)
  /\ nEvents >= 1
  /\ BannerPlaces(RowText(Frame, ScenarioRows \div 3)) # {}
  /\ RowText(Frame, 0) = <<"~">>

---------------------------------------------------------------------------
(* The banner row and start-up.                                            *)

\* the printed text of the banner row of the latest frame
BannerRowText == RowText(Frame, rows \div 3)

\* n spaces
RECURSIVE Spaces(_)
Spaces(n) == IF n > 0 THEN <<" ">> \o Spaces(n - 1) ELSE <<>>

\* (columns - bannerLength) / 2 as an integer division
IntPadding == (columns - Len(welcomeMsg)) \div 2

\* C11: for every viewport extent, columns smaller than the banner
\* included, the banner row carries at most `columns` visible characters.
C11_BannerFits ==
  (FrameWritten /\ Measured /\ rows >= 1) => Len(BannerRowText) <= columns

\* C15: when the window-size query yields no column/row count the process
\* aborts before any frame is drawn: no frame is written with unmeasured
\* dimensions.
C15_NoFrameUnmeasured ==
  (pc # "constructed" /\ ~Measured) => (nFrames = 0 /\ nWrites = 0 /\ pc = "exited")

\* C16: on the banner row, with padding = (columns - bannerLength) / 2 as
\* an integer division, a padding > 0 gives one filler glyph and padding-1
\* spaces before the banner text, a padding <= 0 gives nothing before it.
C16_BannerPadding ==
  (FrameWritten /\ Measured /\ rows >= 1) =>
    BannerRowText =
      IF IntPadding > 0
        THEN <<"~">> \o Spaces(IntPadding - 1) \o welcomeMsg
        ELSE welcomeMsg

\* (columns - bannerLength) / 2 rounded up
CeilPadding == (columns - Len(welcomeMsg) + 1) \div 2

\* C16, as amended: padding = (columns - bannerLength) / 2 is not rounded;
\* with columns > bannerLength the banner row starts with one filler glyph
\* and ceil(padding) - 1 spaces, otherwise nothing precedes the banner text.
C16_BannerPaddingCeil ==
  (FrameWritten /\ Measured /\ rows >= 1) =>
    BannerRowText =
      IF columns > Len(welcomeMsg)
        THEN <<"~">> \o Spaces(CeilPadding - 1) \o welcomeMsg
        ELSE welcomeMsg

\* an odd difference of three columns: a glyph and one space before the text
C16_Witness ==
  /\ FrameWritten /\ Measured /\ rows >= 1
  /\ columns = Len(welcomeMsg) + 3
  /\ Len(BannerRowText) = Len(welcomeMsg) + 2
  /\ BannerRowText[1] = "~" /\ BannerRowText[2] = " "

---------------------------------------------------------------------------
(* Decoding and the events without a cursor effect.                        *)

\* an arrow escape sequence and its literal fallback, with the key of both
ArrowAliases ==
  { << "ESC[A", "w", EDITOR_KEY.ARROW_UP >>,
    << "ESC[B", "s", EDITOR_KEY.ARROW_DOWN >>,
    << "ESC[C", "d", EDITOR_KEY.ARROW_RIGHT >>,
    << "ESC[D", "a", EDITOR_KEY.ARROW_LEFT >> }

\* C12: an arrow escape sequence and its literal fallback decode to the
\* same key and cause the same transition from every reachable state; a
\* sequence that is not in the decode table is decoded to itself, unchanged,
\* and has no cursor effect.
C12_DecodeAliases ==
  [][ (pc = "running") =>
        /\ \A al \in ArrowAliases :
             /\ readKey(al[1]) = al[3]
             /\ readKey(al[2]) = al[3]
             /\ editorProcessKeypress(al[1]) <=> editorProcessKeypress(al[2])
        /\ \A keySequence \in OtherSeqs :
             /\ readKey(keySequence) = keySequence
             /\ editorProcessKeypress(keySequence) => SameCursor
    ]_vars

\* the cursor moved down and right by two events, each with two aliases
C12_Witness ==
  /\ pc = "running" /\ Measured
  /\ nEvents = 2
  /\ cursorX = 1 /\ cursorY = 1

\* C13: a Delete event and an unrecognised event leave the cursor and the
\* viewport extent unchanged in every reachable state and never end the
\* session.
C13_DeleteOtherNoEffect ==
  [][ (pc = "running" /\ KeyStep({DeleteSeq} \cup OtherSeqs)) =>
        /\ SameCursor
        /\ SameExtent
        /\ pc' = "running"
        /\ exitCode' = {}
    ]_vars

\* three events on a terminal of several cells, the first two moved the
\* cursor off the origin, the editor is running
C13_Witness ==
  /\ pc = "running" /\ Measured /\ columns >= 2 /\ rows >= 2
  /\ nEvents = 3
  /\ cursorX = 1 /\ cursorY = 1
  /\ nFrames = 4

\* C14: when raw mode cannot be acquired at start-up the start-up fails
\* before the viewport is queried: no frame is written and no event is
\* processed.
C14_NoRawModeNoStart ==
  (pc # "constructed" /\ ~rawMode) =>
    /\ pc = "exited"
    /\ exitCode # {} /\ exitCode # {0}
    /\ columns = 0 /\ rows = 0
    /\ written = <<>> /\ nFrames = 0 /\ nWrites = 0
    /\ nEvents = 0

\* the start-up has failed on a stdin that is not a terminal
C14_Witness == pc = "exited" /\ ~rawMode /\ exitCode = {1} /\ nFrames = 0

---------------------------------------------------------------------------
(* The cursor report and the line breaks of a frame.                       *)

\* a 0-based coordinate as the terminal is told it
Coordinate(v) == IF IsNumber(v) THEN ToString(v + 1) ELSE "NaN"

\* the tokens of a frame that are neither text nor one of the fixed controls
ReportPlaces(f) ==
  {i \in 1 .. Len(f) :
     f[i] \notin TextTokens
       \cup {HIDE_CURSOR, SHOW_CURSOR, CURSOR_HOME, CLEAR_LINE, "CRLF"}}

\* C17: every frame reports the cursor as it is after the event it answers,
\* in 1-based coordinates, ESC[<y+1>;<x+1>H; the first frame reports (1,1);
\* no frame reports another cursor.
C17_FrameReportsCursor ==
  FrameWritten =>
    /\ ReportPlaces(Frame) = {Len(Frame) - 1}
    /\ Frame[Len(Frame) - 1] =
         "ESC[" \o Coordinate(cursorY) \o ";" \o Coordinate(cursorX) \o "H"
    /\ (nEvents = 0) => Frame[Len(Frame) - 1] = "ESC[1;1H"

\* after three events the cursor is at (2,1) and the frame reports row 2,
\* column 3
C17_Witness ==
  /\ pc = "running" /\ FrameWritten
  /\ nEvents = 3
  /\ cursorX = 2 /\ cursorY = 1
  /\ Frame[Len(Frame) - 1] = "ESC[2;3H"

\* C18: every painted row is followed by one clear-to-end-of-line, and a
\* line break follows every row except the last: rows clear-to-end-of-line
\* tokens and rows-1 line breaks for rows >= 1, none for rows = 0.
C18_LineBreaks ==
  (FrameWritten /\ Measured) =>
    LET f     == Frame
        clear == ClearPositions(f)
        last  == CHOOSE i \in clear : \A j \in clear : j <= i
    IN  /\ Cardinality(clear) = rows
        /\ Count(f, "CRLF") = Max(rows - 1, 0)
        /\ \A i \in clear : (f[i + 1] = "CRLF") <=> (i # last)
        /\ \A i \in 1 .. Len(f) : f[i] = "CRLF" => (i - 1) \in clear

\* nine rows: eight line breaks
C18_Witness ==
  /\ FrameWritten /\ Measured
  /\ rows = ScenarioRows
  /\ nEvents >= 1
  /\ Count(Frame, "CRLF") = ScenarioRows - 1

\* C19: from every reachable state, a Home event applied twice gives the
\* cursor that it gives applied once; the same for End and PageUp.
C19_Idempotent ==
  [][ (pc = "running") =>
        \A keySequence \in HomeSeqs \cup EndSeqs \cup PageUpSeqs :
          editorProcessKeypress(keySequence) =>
            dispatchKey(readKey(keySequence), cursorX', cursorY', columns', rows')
              = [x |-> cursorX', y |-> cursorY']
    ]_vars

\* the cursor in the top row, away from the first column, after three events
C19_Witness ==
  /\ pc = "running" /\ Measured /\ rows >= 2
  /\ nEvents = 3
  /\ cursorX = 1 /\ cursorY = 0

=============================================================================
